---- MODULE Spec2Model ----
(***************************************************************************)
(* State-machine model of cobaya's sample store (cobaya/collection.py):    *)
(* Collection (a growable table over a pandas DataFrame with a logical row *)
(* count _n and a text persistence driver), its OnePoint subclass, and the  *)
(* OneSamplePoint that hands thinned points to a collection; and of the     *)
(* live and dead collections of the PolyChord interface                     *)
(* (cobaya/samplers/polychord/polychord.py), one sampler per MPI process.   *)
(***************************************************************************)
EXTENDS Integers, Sequences, FiniteSets, TLC

VARIABLES
    kind,                \* "Collection" or "OnePoint": the class of the object
    ctor,                \* how __init__ ended: "ok", "nodata", "LoggedError", "IOError"
    driver,              \* self.driver: "txt" or "dummy"
    enlargement_factor,  \* module global: None or a fraction <<num, den>>
    data,                \* self.data: the rows of the DataFrame, all `capacity` of them
    _n,                  \* self._n: the logical length
    _n_last_out,         \* self._n_last_out: _n as of the last write (txt driver)
    _value_dict,         \* self._value_dict: the row buffer reused by every add
    file,                \* the persisted file: [exists, lines]
    last,                \* the last call made on the object and how it ended
    output_thin,         \* OneSamplePoint.output_thin: the thinning factor
    _added_weight,       \* OneSamplePoint._added_weight: the weight carried over
    point,               \* OneSamplePoint's values, weight and kwargs: None before add
    accepted,            \* history: the sum of the weights handed to OneSamplePoint.add
    has_output,          \* polychord: self.output is set (the same in every process)
    callback_function,   \* polychord: self.callback_function, None when not configured
    phase,               \* polychord, per rank: "new", "initialized" or "closed"
    live,                \* polychord, per rank: self.live, None before initialize
    dead,                \* polychord, per rank: self.dead, None before initialize
    last_point_callback, \* polychord, per rank: self.last_point_callback
    dead_points,         \* per rank: the dead points handed to the latest dumper call
    file_ops             \* history: the operations on persisted files, [rank, op, name]

vars == <<kind, ctor, driver, enlargement_factor, data, _n, _n_last_out,
          _value_dict, file, last, output_thin, _added_weight, point, accepted,
          has_output, callback_function, phase, live, dead, last_point_callback,
          dead_points, file_ops>>

\* The state of the PolyChord samplers
pcvars == <<has_output, callback_function, phase, live, dead, last_point_callback,
            dead_points, file_ops>>

\* The state of the OneSamplePoint that feeds the collection, and of the
\* samplers, which no operation on the collection touches
pointvars == <<output_thin, _added_weight, point, accepted, pcvars>>

-----------------------------------------------------------------------------
\* Bounds of the model

\* most valid rows a collection is driven to
MaxLen == 2
\* integer indices and slice bounds are drawn from -MaxIdx..MaxIdx
MaxIdx == 2
\* most data rows of a file left by an earlier run
MaxFileRows == 2

-----------------------------------------------------------------------------
\* Python values

\* None, and a value that is not None
None == <<>>
Some(x) == <<x>>
Val(o) == o[1]

\* A float cell: a number or not-a-number
NaN == <<>>
Num(v) == <<v>>
IsNaN(c) == c = NaN

Min(a, b) == IF a <= b THEN a ELSE b
Max(a, b) == IF a >= b THEN a ELSE b

\* -x, x + y and k * x on floats: NaN propagates
Neg(c) == IF IsNaN(c) THEN NaN ELSE Num(-c[1])
Plus(c, d) == IF IsNaN(c) \/ IsNaN(d) THEN NaN ELSE Num(c[1] + d[1])
Times(k, c) == IF IsNaN(c) THEN NaN ELSE Num(k * c[1])

\* sum(list): 0 + list[0] + list[1] + ...
RECURSIVE SumFrom(_, _)
SumFrom(s, k) == IF k > Len(s) THEN Num(0) ELSE Plus(s[k], SumFrom(s, k + 1))
Sum(s) == SumFrom(s, 1)

\* The outcome of a call: the exception raised ("" for none) and the value returned
Return(v) == [raised |-> "", val |-> v]
Raise(e) == [raised |-> e, val |-> None]

\* range(start, stop, step) as the sequence of its elements, step # 0
RangeLen(start, stop, step) ==
    IF step > 0
    THEN IF stop > start THEN (stop - start + step - 1) \div step ELSE 0
    ELSE IF stop < start THEN (start - stop - step - 1) \div (-step) ELSE 0
Range(start, stop, step) ==
    [k \in 1..RangeLen(start, stop, step) |-> start + (k - 1) * step]

\* slice(start, stop, step).indices(length) followed by range(): the positions
\* that data.iloc[start:stop:step] selects from `length` rows. Bounds and step
\* are None or Some(int); step is never Some(0).
SlicePositions(start, stop, step, length) ==
    LET st == IF step = None THEN 1 ELSE Val(step)
        lower == IF st < 0 THEN -1 ELSE 0
        upper == IF st < 0 THEN length - 1 ELSE length
        a == IF start = None THEN (IF st < 0 THEN upper ELSE lower)
             ELSE IF Val(start) < 0 THEN Max(Val(start) + length, lower)
             ELSE Min(Val(start), upper)
        b == IF stop = None THEN (IF st < 0 THEN lower ELSE upper)
             ELSE IF Val(stop) < 0 THEN Max(Val(stop) + length, lower)
             ELSE Min(Val(stop), upper)
    IN Range(a, b, st)

-----------------------------------------------------------------------------
\* Column names (cobaya.conventions) and the model the collection is built for

_weight == "weight"
_minuslogpost == "minuslogpost"
_minuslogprior == "minuslogprior"
_chi2 == "chi2"
_separator == "__"

\* The parameter, prior and likelihood names of the model collaborator
model ==
    [sampled_params |-> <<"a">>, derived_params |-> <<"d">>,
     prior |-> <<"p0">>, likelihood |-> <<"l0">>]

SeqToSet(s) == {s[k] : k \in 1..Len(s)}
RECURSIVE SelectNotIn(_, _)
SelectNotIn(s, excluded) ==
    IF s = <<>> THEN <<>>
    ELSE (IF Head(s) \in excluded THEN <<>> ELSE <<Head(s)>>)
         \o SelectNotIn(Tail(s), excluded)

minuslogprior_names(m) ==
    [k \in 1..Len(m.prior) |-> _minuslogprior \o _separator \o m.prior[k]]
chi2_names(m) ==
    [k \in 1..Len(m.likelihood) |-> _chi2 \o _separator \o m.likelihood[k]]

\* BaseCollection.__init__: the ordered column schema
Columns(m) ==
    <<_weight, _minuslogpost>>
    \o m.sampled_params
    \o SelectNotIn(m.derived_params, SeqToSet(chi2_names(m)))
    \o <<_minuslogprior>> \o minuslogprior_names(m)
    \o <<_chi2>> \o chi2_names(m)

columns == Columns(model)
ColumnSet == SeqToSet(columns)

\* A row of the DataFrame that was never written
NaNRow == [c \in ColumnSet |-> NaN]
\* pd.DataFrame(np.nan, columns=..., index=<k labels>)
NaNFrame(k) == [i \in 1..k |-> NaNRow]

-----------------------------------------------------------------------------
\* Bounds checks of the read paths

\* check_index(i, imax)
check_index(i, imax) ==
    IF (i > 0 /\ i >= imax) \/ (i < 0 /\ -i > imax)
    THEN Raise("IndexError")
    ELSE IF i < 0 THEN Return(imax + i) ELSE Return(i)

\* One limit of check_slice: `lim >= 0` on None is a TypeError
check_lim(lim, imax) ==
    IF lim = None THEN Raise("TypeError")
    ELSE IF Val(lim) >= 0 THEN Return(Some(Min(imax, Val(lim))))
    ELSE Return(Some(imax + Val(lim)))

\* check_slice(ij, imax), ij = [start, stop, step]
check_slice(ij, imax) ==
    LET s == check_lim(ij.start, imax)
        e == check_lim(ij.stop, imax)
    IN IF s.raised # "" THEN Raise(s.raised)
       ELSE IF e.raised # "" THEN Raise(e.raised)
       ELSE Return([start |-> s.val, stop |-> e.val, step |-> ij.step])

-----------------------------------------------------------------------------
\* Growth of the table

\* Default chunk size for enlarging collections
enlargement_size == 100

\* len(np.arange(n, n + enlarge_by)) for enlarge_by = rows * num / den: the
\* number of rows _enlarge_if_needed adds
ArangeLen(num, den) == IF num <= 0 THEN 0 ELSE (num + den - 1) \div den

\* _enlarge_if_needed() building the enlarged DataFrame anew instead of
\* concatenating to the old one
enlarge_reallocating(d, len) ==
    IF len >= Len(d)
    THEN LET enlarge_by ==
                 IF enlargement_factor # None /\ enlargement_factor[1] # 0
                 THEN ArangeLen(Len(d) * enlargement_factor[1], enlargement_factor[2])
                 ELSE enlargement_size
         IN NaNFrame(Len(d) + enlarge_by)
    ELSE d

\* _enlarge_if_needed(): the DataFrame after the call
_enlarge_if_needed(d, len) ==
    IF len >= Len(d)
    THEN LET enlarge_by ==
                 IF enlargement_factor # None /\ enlargement_factor[1] # 0
                 THEN ArangeLen(Len(d) * enlargement_factor[1], enlargement_factor[2])
                 ELSE enlargement_size
         IN d \o NaNFrame(enlarge_by)
    ELSE d

-----------------------------------------------------------------------------
\* Assembling a row

\* The loop storing the values as they come, without the factor
zip_unscaled(dic, names, values, k) ==
    LET m == Min(Len(names), Len(values))
        hits(c) == {i \in 1..m : names[i] = c}
        last_hit(c) == CHOOSE i \in hits(c) : \A j \in hits(c) : j <= i
    IN [c \in DOMAIN dic |->
            IF hits(c) = {} THEN dic[c] ELSE values[last_hit(c)]]

\* for name, value in zip(names, values): dic[name] = f(value), f = k * value
ZipInto(dic, names, values, k) ==
    LET m == Min(Len(names), Len(values))
        hits(c) == {i \in 1..m : names[i] = c}
        last_hit(c) == CHOOSE i \in hits(c) : \A j \in hits(c) : j <= i
    IN [c \in DOMAIN dic |->
            IF hits(c) = {} THEN dic[c] ELSE Times(k, values[last_hit(c)])]

Put(dic, name, value) == [dic EXCEPT ![name] = value]

\* _add_dict(dic, values, derived, weight, logpost, logpriors, loglikes):
\* [raised, val] with val the dictionary as the call leaves it, also when it raises
_add_dict(dic, a) ==
    LET d1 == Put(dic, _weight, a.weight)
        no_sum == a.logpost = None /\ (a.logpriors = None \/ a.loglikes = None)
        logpost == IF a.logpost # None THEN Val(a.logpost)
                   ELSE Plus(Sum(Val(a.logpriors)), Sum(Val(a.loglikes)))
        d2 == Put(d1, _minuslogpost, Neg(logpost))
        d3 == IF a.logpriors = None THEN d2
              ELSE Put(ZipInto(d2, minuslogprior_names(model), Val(a.logpriors), -1),
                       _minuslogprior, Neg(Sum(Val(a.logpriors))))
        d4 == IF a.loglikes = None THEN d3
              ELSE Put(ZipInto(d3, chi2_names(model), Val(a.loglikes), -2),
                       _chi2, Times(-2, Sum(Val(a.loglikes))))
        d5 == ZipInto(d4, model.sampled_params, a.values, 1)
        d6 == IF a.derived = None THEN d5
              ELSE ZipInto(d5, model.derived_params, Val(a.derived), 1)
    IN IF no_sum THEN [raised |-> "TypeError", val |-> d1]
       ELSE IF Len(a.values) # Len(model.sampled_params)
       THEN [raised |-> "LoggedError", val |-> d4]
       ELSE IF a.derived # None /\ Len(Val(a.derived)) # Len(model.derived_params)
       THEN [raised |-> "LoggedError", val |-> d5]
       ELSE [raised |-> "", val |-> d6]

-----------------------------------------------------------------------------
\* The text driver

\* n_float: significant digits of the "%.8g" float format
n_float == 8

RECURSIVE Pow10(_)
Pow10(k) == IF k <= 0 THEN 1 ELSE 10 * Pow10(k - 1)
RECURSIVE Digits(_)
Digits(v) == IF v < 10 THEN 1 ELSE 1 + Digits(v \div 10)
Abs(v) == IF v < 0 THEN -v ELSE v

\* The number that ("%.8g" % v) denotes: v rounded to n_float significant
\* digits, ties to even
RoundSig(v) ==
    LET scale == Pow10(Digits(Abs(v)) - n_float)
        q == Abs(v) \div scale
        r == Abs(v) % scale
        up == 2 * r > scale \/ (2 * r = scale /\ q % 2 = 1)
        mag == (IF up THEN q + 1 ELSE q) * scale
    IN IF v < 0 THEN -mag ELSE mag

\* float_format / na_rep="nan": a cell as written, given by the value it denotes
FormatCell(c) == IF IsNaN(c) THEN NaN ELSE Num(RoundSig(c[1]))
FormatRow(row) == [c \in DOMAIN row |-> FormatCell(row[c])]

HeaderLine(cols) == [kind |-> "header", cols |-> cols]
RowLine(row) == [kind |-> "row", cells |-> FormatRow(row)]
\* What DataFrame.to_string gives for a frame without rows: "Empty DataFrame ..."
EmptyFrameLine(marked) == [kind |-> "empty", marked |-> marked]

\* data[n_min:n_max].to_string(header=do_header, index=False, ...), with the
\* comment marker put before the header: the lines of one write
to_string(d, n_min, n_max, do_header) ==
    LET pos == SlicePositions(Some(n_min), Some(n_max), None, Len(d))
    IN IF Len(pos) = 0 THEN <<EmptyFrameLine(do_header)>>
       ELSE (IF do_header THEN <<HeaderLine(columns)>> ELSE <<>>)
            \o [k \in 1..Len(pos) |-> RowLine(d[pos[k] + 1])]

\* The file opened with "w" instead of "a": each write replaces the file
write_truncating(f, lines) == [exists |-> TRUE, lines |-> lines]

\* open(file_name, "a") ... out.write(lines + "\n")
AppendToFile(f, lines) == [exists |-> TRUE, lines |-> f.lines \o lines]

NoFile == [exists |-> FALSE, lines |-> <<>>]

\* _dump_slice__txt without the early return on _n_last_out == n_max
dump_slice_unguarded(n_min, n_max) ==
    [_n_last_out |-> n_max,
     file |-> AppendToFile(file, to_string(data, n_min, n_max, n_min = 0))]

\* _dump_slice__txt(n_min, n_max): the new [_n_last_out, file]
_dump_slice__txt(n_min, n_max) ==
    IF _n_last_out = n_max
    THEN [_n_last_out |-> _n_last_out, file |-> file]
    ELSE [_n_last_out |-> n_max,
          file |-> AppendToFile(file, to_string(data, n_min, n_max, n_min = 0))]

\* load_DataFrame(file_name, skip, thin): the columns named by the first line
\* (none of the schema when it is not a header) and the data rows, the first
\* `skip` dropped and every `thin`-th of the rest kept
load_DataFrame(f, skip, thin) ==
    LET rows == SelectSeq(f.lines, LAMBDA l : l.kind = "row")
        kept == SlicePositions(Some(skip), None, Some(thin), Len(rows))
    IN [columns |-> IF f.lines # <<>> /\ f.lines[1].kind = "header"
                    THEN f.lines[1].cols ELSE <<>>,
        rows |-> [k \in 1..Len(kept) |-> rows[kept[k] + 1].cells]]

-----------------------------------------------------------------------------
\* Inputs

\* The arguments of one add(values, derived, weight, logpost, logpriors, loglikes)
Args(values, derived, weight, logpost, logpriors, loglikes) ==
    [values |-> values, derived |-> derived, weight |-> weight,
     logpost |-> logpost, logpriors |-> logpriors, loglikes |-> loglikes]

\* A value with more significant digits than the file format keeps
LongValue == 123456789

\* Two points with their prior and likelihood decomposition, and a point with
\* one sampled value too many
PointA ==
    Args(<<Num(1)>>, Some(<<Num(5)>>), Num(1), None, Some(<<Num(-1)>>), Some(<<Num(-2)>>))
PointB ==
    Args(<<Num(LongValue)>>, Some(<<Num(6)>>), Num(2), None, Some(<<Num(-3)>>),
         Some(<<Num(-4)>>))
PointBad ==
    Args(<<Num(1), Num(1)>>, Some(<<Num(5)>>), Num(1), None, Some(<<Num(-1)>>),
         Some(<<Num(-2)>>))

\* Points given with more components than the model has priors and
\* likelihoods, with an explicit log-posterior (alone, or with a
\* decomposition that sums to something else), with one derived value too
\* many, without sampled values, and without the means to get a log-posterior
PointTwo ==
    Args(<<Num(2)>>, Some(<<Num(7)>>), Num(3), None, Some(<<Num(-1), Num(-3)>>),
         Some(<<Num(-2), Num(-5)>>))
PointPost == Args(<<Num(3)>>, None, Num(1), Some(Num(-7)), None, None)
PointPostBoth ==
    Args(<<Num(4)>>, Some(<<Num(8)>>), Num(1), Some(Num(-9)), Some(<<Num(-1)>>),
         Some(<<Num(-2)>>))
PointBadDerived ==
    Args(<<Num(1)>>, Some(<<Num(5), Num(5)>>), Num(1), None, Some(<<Num(-1)>>),
         Some(<<Num(-2)>>))
PointFew == Args(<<>>, None, Num(1), Some(Num(-7)), None, None)
\* A point with a smaller chi2 and a larger minus log-posterior than PointA
PointC ==
    Args(<<Num(2)>>, Some(<<Num(6)>>), Num(1), None, Some(<<Num(-5)>>), Some(<<Num(-1)>>))
PointNoPriors == Args(<<Num(1)>>, None, Num(1), None, None, Some(<<Num(-2)>>))
PointNoLikes == Args(<<Num(1)>>, None, Num(1), None, Some(<<Num(-1)>>), None)
PointNeither == Args(<<Num(1), Num(1)>>, None, Num(1), None, None, None)

RowArgs ==
    {PointA, PointTwo, PointPost, PointPostBoth, PointBad, PointBadDerived, PointFew,
     PointNoPriors, PointNoLikes, PointNeither}

AddArgs == {PointA, PointB, PointBad}
ReadAddArgs == {PointA}
BestArgs == {PointA, PointC, PointPost}
FlushAddArgs == {PointA, PointB}

\* The rows that add writes into a new collection for AddArgs
SampleRows ==
    {_add_dict(NaNRow, a).val : a \in {b \in AddArgs : _add_dict(NaNRow, b).raised = ""}}

RECURSIVE SeqsUpTo(_, _)
SeqsUpTo(S, k) ==
    IF k = 0 THEN {<<>>}
    ELSE LET shorter == SeqsUpTo(S, k - 1)
         IN shorter \cup {Append(q, x) : q \in shorter, x \in S}

\* The file an earlier run left: none, a header and its data rows, or the file
\* of a run with another model
FileOf(cols, rows) ==
    [exists |-> TRUE,
     lines |-> <<HeaderLine(cols)>> \o [k \in 1..Len(rows) |-> RowLine(rows[k])]]
EarlierRun(k) == [i \in 1..k |-> IF i % 2 = 1 THEN _add_dict(NaNRow, PointA).val
                                  ELSE _add_dict(NaNRow, PointB).val]
DiskFiles ==
    {NoFile, FileOf(<<_weight, _minuslogpost, "other">>, <<>>)}
    \cup {FileOf(columns, EarlierRun(k)) : k \in 1..MaxFileRows}

\* most names in each list of the metadata of a model
MaxNames == 2

\* The lists of at most k different names of S
ListsOf(S, k) ==
    {q \in SeqsUpTo(S, k) : \A i \in 1..Len(q), j \in 1..Len(q) : q[i] = q[j] => i = j}

\* Metadata of models: sampled and derived parameters (a derived parameter
\* may bear the name of a chi2 or of a prior column), priors and likelihoods
Models ==
    [sampled_params : ListsOf({"a", "b"}, MaxNames),
     derived_params : ListsOf({"d", "chi2__l0", "minuslogprior__p0"}, MaxNames),
     prior : {<<"p0">>, <<"p0", "p1">>},
     likelihood : {<<"l0">>, <<"l0", "l1">>}]

\* enlargement_factor: unset, or the fractions 0.5 and 1.0
Factors == {None, <<1, 2>>, <<1, 1>>}

\* Another collection handed to _append: valid rows followed by unwritten ones
OtherCollections ==
    {[data |-> rows \o NaNFrame(spare), n |-> Len(rows)] :
        rows \in SeqsUpTo(SampleRows, 1), spare \in 0..1}

ReadOtherCollections ==
    {o \in OtherCollections : \A k \in 1..o.n : o.data[k] = _add_dict(NaNRow, PointA).val}

\* The same, and a OnePoint that holds a row (its len() is 0)
HeldPoints == {[data |-> <<row>>, n |-> 0] : row \in SampleRows}
BestOtherCollections == OtherCollections \cup HeldPoints

Indices == (-MaxIdx)..MaxIdx
Bounds == {None} \cup {Some(i) : i \in Indices}
Steps == {None, Some(2), Some(-1)}
Slices == [start : Bounds, stop : Bounds, step : Steps]
ColumnNames == {_weight, "unknown"}
ColumnLists == {<<_weight, _chi2>>, <<_weight, "unknown">>}

-----------------------------------------------------------------------------
\* Construction

\* Collection.__init__ that loads the file without comparing its columns with
\* the schema
init_without_schema_check(cls, output, size, resuming, load, skip, thin, disk) ==
    LET initial_size == IF cls = "OnePoint" THEN 1 ELSE size
        drv == IF output THEN "txt" ELSE "dummy"
        fresh(f) == [ctor |-> "ok", driver |-> drv, data |-> NaNFrame(initial_size),
                     n |-> 0, n_last_out |-> 0, file |-> f]
        failed(how, f) == [ctor |-> how, driver |-> drv, data |-> <<>>,
                           n |-> 0, n_last_out |-> 0, file |-> f]
    IN IF resuming \/ load
       THEN IF output
            THEN IF ~disk.exists
                 THEN IF resuming
                      THEN (IF load THEN failed("nodata", disk) ELSE fresh(disk))
                      ELSE failed("IOError", disk)
                 ELSE LET df == load_DataFrame(disk, skip, thin)
                      IN [ctor |-> "ok", driver |-> drv, data |-> df.rows,
                          n |-> Len(df.rows), n_last_out |-> Len(df.rows),
                          file |-> disk]
            ELSE failed("LoggedError", NoFile)
       ELSE fresh(NoFile)

\* Collection.__init__ (OnePoint.__init__ fixes initial_size = 1): the object
\* built, given the file found on disk
CollectionInit(cls, output, size, resuming, load, skip, thin, disk) ==
    LET initial_size == IF cls = "OnePoint" THEN 1 ELSE size
        drv == IF output THEN "txt" ELSE "dummy"
        fresh(f) == [ctor |-> "ok", driver |-> drv, data |-> NaNFrame(initial_size),
                     n |-> 0, n_last_out |-> 0, file |-> f]
        failed(how, f) == [ctor |-> how, driver |-> drv, data |-> <<>>,
                           n |-> 0, n_last_out |-> 0, file |-> f]
    IN IF resuming \/ load
       THEN IF output
            THEN IF ~disk.exists
                 THEN IF resuming
                      THEN (IF load THEN failed("nodata", disk) ELSE fresh(disk))
                      ELSE failed("IOError", disk)
                 ELSE LET df == load_DataFrame(disk, skip, thin)
                      IN IF SeqToSet(df.columns) # SeqToSet(columns)
                         THEN failed("LoggedError", disk)
                         ELSE [ctor |-> "ok", driver |-> drv, data |-> df.rows,
                               n |-> Len(df.rows), n_last_out |-> Len(df.rows),
                               file |-> disk]
            ELSE failed("LoggedError", NoFile)
       ELSE fresh(NoFile)

\* OneSamplePoint.__init__(model, output_thin)
OneSamplePointInit(thin) == [output_thin |-> thin, _added_weight |-> 0]

\* most MPI processes, and their ranks
MaxRanks == 2
Ranks == 0..(MaxRanks - 1)

\* No PolyChord sampler has been constructed
NoSampler ==
    /\ has_output = FALSE
    /\ callback_function = None
    /\ phase = [r \in Ranks |-> "new"]
    /\ live = [r \in Ranks |-> None]
    /\ dead = [r \in Ranks |-> None]
    /\ last_point_callback = [r \in Ranks |-> 0]
    /\ dead_points = [r \in Ranks |-> <<>>]
    /\ file_ops = {}

\* The states after construction: the class among `kinds`, with or without an
\* output (`outputs`), resuming or loading allowed or not (`restarts`),
\* enlargement_factor set to one of `factors`, and a OneSamplePoint built with
\* output_thin among `thins`
InitCollections(kinds, outputs, restarts, factors, thins) ==
    \E cls \in kinds, output \in outputs, size \in 0..MaxLen,
       resuming \in restarts, load \in restarts, skip \in 0..MaxFileRows,
       thin \in 1..2, disk \in DiskFiles, factor \in factors, othin \in thins :
        LET o == CollectionInit(cls, output, size, resuming, load, skip, thin, disk)
        IN /\ kind = cls
           /\ ctor = o.ctor
           /\ driver = o.driver
           /\ enlargement_factor = factor
           /\ data = o.data
           /\ _n = o.n
           /\ _n_last_out = o.n_last_out
           /\ _value_dict = NaNRow
           /\ file = o.file
           /\ last = [op |-> "__init__",
                      arg |-> [output |-> output, initial_size |-> size,
                               resuming |-> resuming, load |-> load,
                               onload_skip |-> skip, onload_thin |-> thin,
                               found |-> disk.exists, restart |-> FALSE,
                               rows |-> <<>>, flushed |-> 0],
                      pre |-> 0, cap |-> 0,
                      out |-> IF o.ctor \in {"ok", "nodata"} THEN Return(None)
                              ELSE Raise(o.ctor)]
           /\ output_thin = OneSamplePointInit(othin).output_thin
           /\ _added_weight = OneSamplePointInit(othin)._added_weight
           /\ point = None
           /\ accepted = 0

\* The same, no PolyChord sampler being constructed
InitObjects(kinds, outputs, restarts, factors, thins) ==
    InitCollections(kinds, outputs, restarts, factors, thins) /\ NoSampler

\* The same with the OneSamplePoint as built by default (output_thin = 1)
InitWith(kinds, outputs, restarts, factors) ==
    InitObjects(kinds, outputs, restarts, factors, {1})

-----------------------------------------------------------------------------
\* Operations of Collection and OnePoint. Each operator gives the result of the
\* method on the current state; the actions below apply them.

\* __len__ answering with the number of rows of the DataFrame
len_of_dataframe == Len(data)

\* Collection.__len__
Collection_len == _n

\* Collection.reset() with the columns and index of the current DataFrame
Collection_reset == [data |-> NaNFrame(Len(data)), n |-> 0]

\* Collection.add storing the row and counting it before _add_dict has
\* checked the values
add_before_validation(a) ==
    LET grown == _enlarge_if_needed(data, _n)
        r == _add_dict(_value_dict, a)
    IN IF _n >= Len(grown)
       THEN [data |-> grown, n |-> _n, value_dict |-> r.val, out |-> Raise("IndexError")]
       ELSE [data |-> [grown EXCEPT ![_n + 1] = r.val], n |-> _n + 1,
             value_dict |-> r.val,
             out |-> IF r.raised # "" THEN Raise(r.raised) ELSE Return(None)]

\* Collection.add: enlarge, assemble the row in _value_dict, store it at _n
Collection_add(a) ==
    LET grown == _enlarge_if_needed(data, _n)
        r == _add_dict(_value_dict, a)
    IN IF r.raised # ""
       THEN [data |-> grown, n |-> _n, value_dict |-> r.val, out |-> Raise(r.raised)]
       ELSE IF _n >= Len(grown)
       THEN [data |-> grown, n |-> _n, value_dict |-> r.val, out |-> Raise("IndexError")]
       ELSE [data |-> [grown EXCEPT ![_n + 1] = r.val], n |-> _n + 1,
             value_dict |-> r.val, out |-> Return(None)]

\* OnePoint.add without the reset of the counter
add_keeping_count(a) == Collection_add(a)

\* OnePoint.add: Collection.add, then the counter is reset
OnePoint_add(a) ==
    LET r == Collection_add(a)
    IN IF r.out.raised = "" THEN [r EXCEPT !.n = 0] ELSE r

\* _append taking the rows of the DataFrame for the length of the collection
append_counting_all_rows(other) ==
    LET mine == SlicePositions(None, Some(_n), None, Len(data))
    IN [data |-> [k \in 1..Len(mine) |-> data[mine[k] + 1]] \o other.data,
        n |-> Len(data) + other.n]

\* _append joining the whole DataFrame, unwritten rows included, with the other
append_whole_table(other) ==
    [data |-> data \o other.data, n |-> Collection_len + other.n]

\* Collection._append(collection)
Collection_append(other) ==
    LET mine == SlicePositions(None, Some(Collection_len), None, Len(data))
    IN [data |-> [k \in 1..Len(mine) |-> data[mine[k] + 1]] \o other.data,
        n |-> Collection_len + other.n]

\* The rows data.iloc[:_n] selects, as positions
ValidPositions == SlicePositions(None, Some(_n), None, Len(data))

\* Collection.__getitem__ for an int: the position of the row returned
getitem_int(i) ==
    LET k == check_index(i, _n)
    IN IF k.raised # "" THEN k
       ELSE IF k.val >= Len(data) THEN Raise("IndexError")
       ELSE Return(<<k.val>>)

\* Collection.__getitem__ for a slice: the positions of the rows returned
getitem_slice(ij) ==
    LET s == check_slice(ij, _n)
    IN IF s.raised # "" THEN s
       ELSE Return(SlicePositions(s.val.start, s.val.stop, s.val.step, Len(data)))

\* Collection.__getitem__ for a column name
getitem_str(c) ==
    IF c \notin ColumnSet THEN Raise("KeyError") ELSE Return(ValidPositions)

\* Collection.__getitem__ for a list of column names
getitem_list(cs) ==
    IF \E k \in 1..Len(cs) : cs[k] \notin ColumnSet
    THEN Raise("ValueError") ELSE Return(ValidPositions)

\* Collection.__iter__
Collection_iter == Return(ValidPositions)

\* OnePoint.__getitem__: row 0 of the DataFrame for column names, whatever _n
OnePoint_getitem(what, arg) ==
    IF what = "str"
    THEN IF arg \notin ColumnSet THEN Raise("KeyError")
         ELSE IF Len(data) = 0 THEN Raise("IndexError") ELSE Return(<<0>>)
    ELSE IF what = "list"
    THEN IF \E k \in 1..Len(arg) : arg[k] \notin ColumnSet THEN Raise("ValueError")
         ELSE IF Len(data) = 0 THEN Raise("IndexError") ELSE Return(<<0>>)
    ELSE Raise("TypeError")

\* _update__txt writing from row 0 on every call
update_from_first_row ==
    IF driver = "dummy" THEN [_n_last_out |-> _n_last_out, file |-> file]
    ELSE IF kind = "OnePoint" THEN _dump_slice__txt(0, 1)
    ELSE _dump_slice__txt(0, _n)

\* _out_update that takes the text driver whatever the driver of the collection
update_any_driver ==
    IF kind = "OnePoint" THEN _dump_slice__txt(0, 1)
    ELSE _dump_slice__txt(_n_last_out, Collection_len)

\* Collection._update__txt, OnePoint._update__txt, Collection._update__dummy
out_update ==
    IF driver = "dummy" THEN [_n_last_out |-> _n_last_out, file |-> file]
    ELSE IF kind = "OnePoint" THEN _dump_slice__txt(0, 1)
    ELSE _dump_slice__txt(_n_last_out, Collection_len)

\* Collection._dump__txt, Collection._dump__dummy
out_dump ==
    IF driver = "dummy" THEN [_n_last_out |-> _n_last_out, file |-> file]
    ELSE _dump_slice__txt(0, Collection_len)

\* Collection._delete__txt (a file that is not there is not an error),
\* Collection._delete__dummy: the file afterwards
out_delete == IF driver = "dummy" THEN file ELSE NoFile

\* self.data[col].idxmin(): the position of the first least value of the
\* column in the DataFrame, missing values skipped; None when there is no value
idxmin(col) ==
    LET known == {k \in 1..Len(data) : ~IsNaN(data[k][col])}
    IN IF known = {} THEN None
       ELSE Some((CHOOSE k \in known : \A j \in known :
                     \/ Val(data[k][col]) < Val(data[j][col])
                     \/ Val(data[k][col]) = Val(data[j][col]) /\ k <= j) - 1)

\* self.data.loc[self.data[col].idxmin()].copy(): the outcomes. Without a
\* value in the column, the error depends on the pandas at hand: idxmin raises
\* ValueError, or answers NaN and loc raises KeyError.
loc_idxmin_copy(col) ==
    IF idxmin(col) = None THEN {Raise("ValueError"), Raise("KeyError")}
    ELSE {Return([pos |-> Val(idxmin(col)), row |-> data[Val(idxmin(col)) + 1],
                  copied |-> TRUE])}

\* Collection.bestfit, Collection.MAP
bestfit == loc_idxmin_copy(_chi2)
MAP == loc_idxmin_copy(_minuslogpost)

-----------------------------------------------------------------------------
\* OneSamplePoint: the point that waits to be added, and its thinning

\* OneSamplePoint.add(values, weight, **kwargs): the point held afterwards
OneSamplePoint_add(values, weight, kwargs) ==
    [values |-> values, weight |-> weight, kwargs |-> kwargs]

\* add_to_collection that forgets the weight left over after a division
flush_dropping_remainder ==
    IF point = None
    THEN [_added_weight |-> _added_weight, call |-> None, out |-> Raise("AttributeError")]
    ELSE IF output_thin > 1
    THEN LET added == _added_weight + Val(point).weight
         IN IF added >= output_thin
            THEN [_added_weight |-> 0, call |-> Some(added \div output_thin),
                  out |-> Return(TRUE)]
            ELSE [_added_weight |-> added, call |-> None, out |-> Return(FALSE)]
    ELSE [_added_weight |-> _added_weight, call |-> Some(Val(point).weight),
          out |-> Return(TRUE)]

\* add_to_collection that thins for output_thin >= 1 instead of > 1
flush_thinning_at_one ==
    IF point = None
    THEN [_added_weight |-> _added_weight, call |-> None, out |-> Raise("AttributeError")]
    ELSE IF output_thin >= 1
    THEN LET added == _added_weight + Val(point).weight
         IN IF added >= output_thin
            THEN [_added_weight |-> added % output_thin,
                  call |-> Some(added \div output_thin), out |-> Return(TRUE)]
            ELSE [_added_weight |-> added, call |-> None, out |-> Return(FALSE)]
    ELSE [_added_weight |-> _added_weight, call |-> Some(Val(point).weight),
          out |-> Return(TRUE)]

\* OneSamplePoint.add_to_collection up to the call of collection.add: the new
\* _added_weight, the weight handed to collection.add (None when it is not
\* called) and the outcome if collection.add returns
add_to_collection ==
    IF point = None
    THEN [_added_weight |-> _added_weight, call |-> None, out |-> Raise("AttributeError")]
    ELSE IF output_thin > 1
    THEN LET added == _added_weight + Val(point).weight
         IN IF added >= output_thin
            THEN [_added_weight |-> added % output_thin,
                  call |-> Some(added \div output_thin), out |-> Return(TRUE)]
            ELSE [_added_weight |-> added, call |-> None, out |-> Return(FALSE)]
    ELSE [_added_weight |-> _added_weight, call |-> Some(Val(point).weight),
          out |-> Return(TRUE)]

-----------------------------------------------------------------------------
\* Actions

\* most lines the persisted file is driven to
MaxFileLines == 3

Called(op, arg, out) ==
    [op |-> op, arg |-> arg, pre |-> _n, cap |-> Len(data), out |-> out]

Add(a) ==
    /\ ctor = "ok"
    /\ _n < MaxLen
    /\ LET r == IF kind = "OnePoint" THEN OnePoint_add(a) ELSE Collection_add(a)
       IN /\ data' = r.data
          /\ _n' = r.n
          /\ _value_dict' = r.value_dict
          /\ last' = Called("add", a, r.out)
    /\ UNCHANGED <<kind, ctor, driver, enlargement_factor, _n_last_out, file>>
    /\ UNCHANGED pointvars

AddOver(S) == \E a \in S : Add(a)

Reset ==
    /\ ctor = "ok"
    /\ data' = Collection_reset.data
    /\ _n' = Collection_reset.n
    /\ last' = Called("reset", None, Return(None))
    /\ UNCHANGED <<kind, ctor, driver, enlargement_factor, _n_last_out,
                   _value_dict, file>>
    /\ UNCHANGED pointvars

ExtendOver(S) ==
    \E other \in S :
        /\ ctor = "ok"
        /\ _n + other.n <= MaxLen
        /\ data' = Collection_append(other).data
        /\ _n' = Collection_append(other).n
        /\ last' = Called("_append", other, Return(None))
        /\ UNCHANGED <<kind, ctor, driver, enlargement_factor, _n_last_out,
                       _value_dict, file>>
        /\ UNCHANGED pointvars

Extend == ExtendOver(OtherCollections)

Update ==
    /\ ctor = "ok"
    /\ Len(file.lines) < MaxFileLines
    /\ _n_last_out' = out_update._n_last_out
    /\ file' = out_update.file
    /\ last' = Called("_out_update", None, Return(None))
    /\ UNCHANGED <<kind, ctor, driver, enlargement_factor, data, _n, _value_dict>>
    /\ UNCHANGED pointvars

Dump ==
    /\ ctor = "ok"
    /\ Len(file.lines) < MaxFileLines
    /\ _n_last_out' = out_dump._n_last_out
    /\ file' = out_dump.file
    /\ last' = Called("_out_dump", None, Return(None))
    /\ UNCHANGED <<kind, ctor, driver, enlargement_factor, data, _n, _value_dict>>
    /\ UNCHANGED pointvars

Delete ==
    /\ ctor = "ok"
    /\ file' = out_delete
    /\ last' = Called("_out_delete", None, Return(None))
    /\ UNCHANGED <<kind, ctor, driver, enlargement_factor, data, _n, _n_last_out,
                   _value_dict>>
    /\ UNCHANGED pointvars

\* The rows of the table below len(): data[:len(self)]
ValidRows == [k \in 1..Len(ValidPositions) |-> data[ValidPositions[k] + 1]]

\* The run ends and a new object of the same class is constructed over the
\* file it left, resuming or loading: Collection.__init__ once more. The call
\* is recorded with the valid rows and _n_last_out of the object it replaces.
RestartOver(skips, thins) ==
    \E size \in 0..MaxLen, resuming \in BOOLEAN, load \in BOOLEAN,
       skip \in skips, thin \in thins :
        /\ ctor = "ok"
        /\ driver = "txt"
        /\ resuming \/ load
        /\ LET o == CollectionInit(kind, TRUE, size, resuming, load, skip, thin, file)
           IN /\ ctor' = o.ctor
              /\ data' = o.data
              /\ _n' = o.n
              /\ _n_last_out' = o.n_last_out
              /\ file' = o.file
              /\ last' = [op |-> "__init__",
                          arg |-> [output |-> TRUE, initial_size |-> size,
                                   resuming |-> resuming, load |-> load,
                                   onload_skip |-> skip, onload_thin |-> thin,
                                   found |-> file.exists, restart |-> TRUE,
                                   rows |-> ValidRows, flushed |-> _n_last_out],
                          pre |-> _n, cap |-> Len(data),
                          out |-> IF o.ctor \in {"ok", "nodata"} THEN Return(None)
                                  ELSE Raise(o.ctor)]
        /\ _value_dict' = NaNRow
        /\ UNCHANGED <<kind, driver, enlargement_factor>>
        /\ UNCHANGED pointvars

\* most weight of one point, and most weight handed to a OneSamplePoint in all
MaxWeight == 5
MaxAccepted == 8

\* OneSamplePoint.add with the values and keyword arguments of a point of S
\* and a weight of W
AcceptOver(S, W) ==
    \E a \in S, w \in W :
        /\ ctor = "ok"
        /\ accepted + w <= MaxAccepted
        /\ point' = Some(OneSamplePoint_add(a.values, w,
                              [derived |-> a.derived, logpost |-> a.logpost,
                               logpriors |-> a.logpriors, loglikes |-> a.loglikes]))
        /\ accepted' = accepted + w
        /\ last' = Called("OneSamplePoint_add", w, Return(None))
        /\ UNCHANGED <<kind, ctor, driver, enlargement_factor, data, _n, _n_last_out,
                       _value_dict, file, output_thin, _added_weight>>
        /\ UNCHANGED pcvars

\* OneSamplePoint.add_to_collection(collection) on the collection of the model
AddToCollection ==
    LET f == add_to_collection
        p == Val(point)
        a == Args(p.values, p.kwargs.derived, Num(Val(f.call)), p.kwargs.logpost,
                  p.kwargs.logpriors, p.kwargs.loglikes)
        r == IF kind = "OnePoint" THEN OnePoint_add(a) ELSE Collection_add(a)
        arg == [weight |-> IF point = None THEN None ELSE Some(p.weight),
                carried |-> _added_weight]
    IN /\ ctor = "ok"
       /\ f.call # None => _n < MaxLen
       /\ _added_weight' = f._added_weight
       /\ IF f.call = None
          THEN /\ last' = Called("add_to_collection", arg, f.out)
               /\ UNCHANGED <<data, _n, _value_dict>>
          ELSE /\ data' = r.data
               /\ _n' = r.n
               /\ _value_dict' = r.value_dict
               /\ last' = Called("add_to_collection", arg,
                                 IF r.out.raised = "" THEN f.out ELSE r.out)
       /\ UNCHANGED <<kind, ctor, driver, enlargement_factor, _n_last_out, file,
                      output_thin, point, accepted>>
       /\ UNCHANGED pcvars

Read(op, arg, out) ==
    /\ ctor = "ok"
    /\ last' = Called(op, arg, out)
    /\ UNCHANGED <<kind, ctor, driver, enlargement_factor, data, _n, _n_last_out,
                   _value_dict, file>>
    /\ UNCHANGED pointvars

GetItemInt ==
    \E i \in Indices :
        Read("getitem_int", i,
             IF kind = "OnePoint" THEN OnePoint_getitem("int", i) ELSE getitem_int(i))

GetItemSlice ==
    \E ij \in Slices :
        Read("getitem_slice", ij,
             IF kind = "OnePoint" THEN OnePoint_getitem("slice", ij)
             ELSE getitem_slice(ij))

GetItemStr ==
    \E c \in ColumnNames :
        Read("getitem_str", c,
             IF kind = "OnePoint" THEN OnePoint_getitem("str", c) ELSE getitem_str(c))

GetItemList ==
    \E cs \in ColumnLists :
        Read("getitem_list", cs,
             IF kind = "OnePoint" THEN OnePoint_getitem("list", cs)
             ELSE getitem_list(cs))

Iter == Read("iter", None, Collection_iter)

BestFit == \E out \in bestfit : Read("bestfit", _chi2, out)

MapPoint == \E out \in MAP : Read("MAP", _minuslogpost, out)

-----------------------------------------------------------------------------
\* The PolyChord interface: one sampler per MPI process, each with a live and
\* a dead collection of its own

\* nlive, and the most dead points handed to a dumper call
NLive == 1
MaxDeadPoints == 2

\* is_main_process() in the process of rank r: the process elected to own the
\* output
is_main_process(r) == r = 0

\* What Collection.__init__ does to the persisted file of the collection
InitFileOps(output, resuming, load) ==
    IF ~output THEN {}
    ELSE IF resuming \/ load THEN {"load"}
    ELSE {"delete"}

\* Collection(model, output, initial_size=size) as an object of its own
NewCollection(output, size) ==
    LET o == CollectionInit("Collection", output, size, FALSE, FALSE, 0, 1, NoFile)
    IN [data |-> o.data, n |-> o.n, value_dict |-> NaNRow, driver |-> o.driver]

\* Collection.reset() on the collection c
reset_of(c) == [c EXCEPT !.data = NaNFrame(Len(c.data)), !.n = 0]

\* Collection.add on the collection c (a refused point leaves no row)
add_to(c, a) ==
    LET grown == _enlarge_if_needed(c.data, c.n)
        r == _add_dict(c.value_dict, a)
    IN IF r.raised # "" \/ c.n >= Len(grown)
       THEN [c EXCEPT !.data = grown, !.value_dict = r.val]
       ELSE [c EXCEPT !.data = [grown EXCEPT ![c.n + 1] = r.val],
                      !.n = c.n + 1, !.value_dict = r.val]

\* The loop `for point in points: c.add(...)`
RECURSIVE add_all(_, _)
add_all(c, points) ==
    IF points = <<>> THEN c ELSE add_all(add_to(c, Head(points)), Tail(points))

\* The points from position k on: points[k:]
From(points, k) == SubSeq(points, k + 1, Len(points))

\* A live point is added with weight=np.nan
AsLive(a) == [a EXCEPT !.weight = NaN]

\* PolyChord.dumper(live_points, dead_points, ...) in the process of rank r:
\* the new live, dead and last_point_callback
dumper(r, live_points, dead_pts) ==
    LET d == add_all(dead[r], From(dead_pts, last_point_callback[r]))
    IN [live |-> add_all(reset_of(live[r]), [k \in 1..Len(live_points) |->
                                                AsLive(live_points[k])]),
        dead |-> d,
        last_point_callback |-> IF callback_function # None THEN d.n
                                ELSE last_point_callback[r]]

\* The lists of live points PolyChord hands over: points with every component
LivePointLists == SeqsUpTo({PointA, PointB}, NLive)

\* The dead points of a run, in the order in which they die, and the lists of
\* them PolyChord hands over
AllDeadPoints == [k \in 1..MaxDeadPoints |-> IF k % 2 = 1 THEN PointA ELSE PointB]
DeadPointLists == {SubSeq(AllDeadPoints, 1, k) : k \in 0..MaxDeadPoints}

\* PolyChord.initialize() in the process of rank r: the live collection
\* without output, the dead collection with the output of the sampler
Initialize(r) ==
    /\ phase[r] = "new"
    /\ phase' = [phase EXCEPT ![r] = "initialized"]
    /\ last_point_callback' = [last_point_callback EXCEPT ![r] = 0]
    /\ live' = [live EXCEPT ![r] = NewCollection(FALSE, NLive)]
    /\ dead' = [dead EXCEPT ![r] = NewCollection(has_output, enlargement_size)]
    /\ file_ops' = file_ops \cup
           {[rank |-> r, op |-> o, name |-> "dead"] :
               o \in InitFileOps(has_output, FALSE, FALSE)}
    /\ last' = [op |-> "initialize", arg |-> [rank |-> r], pre |-> 0, cap |-> 0,
                out |-> Return(None)]
    /\ UNCHANGED <<kind, ctor, driver, enlargement_factor, data, _n, _n_last_out,
                   _value_dict, file, output_thin, _added_weight, point, accepted,
                   has_output, callback_function, dead_points>>

\* PolyChord calls the dumper of the process of rank r with the live points
\* and with the dead points so far, which extend those of the previous call
Dumper(r) ==
    \E live_points \in LivePointLists, dead_pts \in DeadPointLists :
        /\ phase[r] = "initialized"
        /\ dead[r].n <= MaxDeadPoints
        /\ Len(dead_pts) >= Len(dead_points[r])
        /\ SubSeq(dead_pts, 1, Len(dead_points[r])) = dead_points[r]
        /\ live' = [live EXCEPT ![r] = dumper(r, live_points, dead_pts).live]
        /\ dead' = [dead EXCEPT ![r] = dumper(r, live_points, dead_pts).dead]
        /\ last_point_callback' =
               [last_point_callback EXCEPT
                   ![r] = dumper(r, live_points, dead_pts).last_point_callback]
        /\ dead_points' = [dead_points EXCEPT ![r] = dead_pts]
        /\ last' = [op |-> "dumper",
                    arg |-> [rank |-> r, live_points |-> live_points,
                             dead_points |-> dead_pts],
                    pre |-> dead[r].n, cap |-> Len(dead[r].data),
                    out |-> Return(None)]
        /\ UNCHANGED <<kind, ctor, driver, enlargement_factor, data, _n, _n_last_out,
                       _value_dict, file, output_thin, _added_weight, point, accepted,
                       has_output, callback_function, phase, file_ops>>

\* PolyChord.close() in the process of rank r: the main process loads the raw
\* sample of PolyChord and, unless it is empty, save_sample builds the
\* collection "1" from it and updates its file
Close(r) ==
    \E empty \in BOOLEAN :
        /\ phase[r] = "initialized"
        /\ phase' = [phase EXCEPT ![r] = "closed"]
        /\ file_ops' =
               IF is_main_process(r) /\ ~empty
               THEN file_ops
                    \cup {[rank |-> r, op |-> o, name |-> "1"] :
                             o \in InitFileOps(has_output, FALSE, FALSE)}
                    \cup (IF has_output THEN {[rank |-> r, op |-> "update", name |-> "1"]}
                          ELSE {})
               ELSE file_ops
        /\ last' = [op |-> "close", arg |-> [rank |-> r, empty |-> empty],
                    pre |-> 0, cap |-> 0, out |-> Return(None)]
        /\ UNCHANGED <<kind, ctor, driver, enlargement_factor, data, _n, _n_last_out,
                       _value_dict, file, output_thin, _added_weight, point, accepted,
                       has_output, callback_function, live, dead, last_point_callback,
                       dead_points>>

\* BaseCollection.__init__(model) for the metadata that Init drew
BuildColumns ==
    /\ last.op = "model"
    /\ last' = [op |-> "BaseCollection.__init__", arg |-> last.arg, pre |-> 0,
                cap |-> 0, out |-> Return(Columns(last.arg))]
    /\ UNCHANGED <<kind, ctor, driver, enlargement_factor, data, _n, _n_last_out,
                   _value_dict, file>>
    /\ UNCHANGED pointvars

Kinds == {"Collection", "OnePoint"}

\* Every construction, with the module as imported (enlargement_factor = None);
\* appends, resets, extensions and flushes
Init == InitWith(Kinds, BOOLEAN, BOOLEAN, {None})
Next ==
    \/ AddOver(FlushAddArgs) \/ Reset \/ ExtendOver(ReadOtherCollections)
    \/ Update \/ Dump
Spec == Init /\ [][Next]_vars

\* Every construction and either growth policy; appends, resets and extensions
InitTable == InitWith(Kinds, BOOLEAN, BOOLEAN, Factors)
NextTable == AddOver(AddArgs) \/ Reset \/ Extend
SpecTable == InitTable /\ [][NextTable]_vars

\* A new collection with the text driver; appends and updates of the file
InitDelta == InitWith(Kinds, {TRUE}, {FALSE}, {None})
NextDelta == AddOver(AddArgs) \/ Update
SpecDelta == InitDelta /\ [][NextDelta]_vars

\* Every construction with an output; appends, updates and dumps of the file
InitFlush == InitWith(Kinds, {TRUE}, BOOLEAN, {None})
NextFlush == AddOver(FlushAddArgs) \/ Update \/ Dump
SpecFlush == InitFlush /\ [][NextFlush]_vars

\* A new collection with the text driver; appends, updates of the file, and
\* restarts that load the whole file (skip = 0, thin = 1)
NextTrip == AddOver(FlushAddArgs) \/ Update \/ RestartOver({0}, {1})
SpecTrip == InitDelta /\ [][NextTrip]_vars

\* A collection resumed or loaded from a file found on disk, with any skip and
\* thin; appends and updates of the file
InitResume ==
    /\ InitWith(Kinds, {TRUE}, BOOLEAN, {None})
    /\ last.arg.found
    /\ last.arg.resuming \/ last.arg.load
NextResume == AddOver(FlushAddArgs) \/ Update
SpecResume == InitResume /\ [][NextResume]_vars

\* Every construction, with either driver; appends, updates and dumps of the
\* file, and its deletion
NextDriver == AddOver(FlushAddArgs) \/ Update \/ Dump \/ Delete
SpecDriver == Init /\ [][NextDriver]_vars

\* A new OnePoint, with or without output, either growth policy; appends and
\* updates of the file
InitPoint == InitWith({"OnePoint"}, BOOLEAN, {FALSE}, Factors)
NextPoint == AddOver(AddArgs) \/ Update
SpecPoint == InitPoint /\ [][NextPoint]_vars

\* A new Collection without output fed by a OneSamplePoint with any thinning
\* factor: the sampler hands it a point, then offers it to the collection once
MaxThin == 3
Thins == 0..MaxThin
Weights == 0..MaxWeight
InitBatch == InitObjects({"Collection"}, {FALSE}, {FALSE}, {None}, Thins)
AcceptNext == last.op # "OneSamplePoint_add" /\ AcceptOver({PointA}, Weights)
FlushAccepted == last.op = "OneSamplePoint_add" /\ AddToCollection
NextBatch == AcceptNext \/ FlushAccepted
SpecBatch == InitBatch /\ [][NextBatch]_vars

\* The same with the two calls in any order
NextBatcher == AcceptOver({PointA}, Weights) \/ AddToCollection
SpecBatcher == InitBatch /\ [][NextBatcher]_vars

\* A new collection, with or without output; appends of well-formed and of
\* ill-formed points, and updates of the file
InitRow == InitWith(Kinds, BOOLEAN, {FALSE}, {None})
NextRow == AddOver(RowArgs) \/ Update
SpecRow == InitRow /\ [][NextRow]_vars

\* A new collection without output, either growth policy; appends, resets,
\* extensions, and reads by index, by column and by iteration
InitRead == InitWith(Kinds, {FALSE}, {FALSE}, Factors)
NextRead ==
    \/ AddOver(ReadAddArgs) \/ Reset \/ ExtendOver(ReadOtherCollections)
    \/ GetItemInt \/ GetItemStr \/ GetItemList \/ Iter
SpecRead == InitRead /\ [][NextRead]_vars

\* The same with reads by slice
NextSlice ==
    \/ AddOver(ReadAddArgs) \/ Reset \/ ExtendOver(ReadOtherCollections)
    \/ GetItemSlice
SpecSlice == InitRead /\ [][NextSlice]_vars

\* PolyChord samplers in MaxRanks processes, configured alike with or without
\* an output and a callback function: each initializes, has its dumper called
\* with growing lists of dead points, and closes
InitSamplers ==
    /\ InitCollections({"Collection"}, {FALSE}, {FALSE}, {None}, {1})
    /\ last.arg.initial_size = 0 /\ last.arg.onload_skip = 0
    /\ last.arg.onload_thin = 1 /\ ~last.arg.found
    /\ has_output \in BOOLEAN
    /\ callback_function \in {None, Some("callback")}
    /\ phase = [r \in Ranks |-> "new"]
    /\ live = [r \in Ranks |-> None]
    /\ dead = [r \in Ranks |-> None]
    /\ last_point_callback = [r \in Ranks |-> 0]
    /\ dead_points = [r \in Ranks |-> <<>>]
    /\ file_ops = {}
NextSamplers == \E r \in Ranks : Initialize(r) \/ Dumper(r) \/ Close(r)
SpecSamplers == InitSamplers /\ [][NextSamplers]_vars

\* The column schema of a collection for the metadata of any model
InitSchema ==
    \E m \in Models :
        LET o == CollectionInit("Collection", FALSE, 1, FALSE, FALSE, 0, 1, NoFile)
        IN /\ kind = "Collection" /\ ctor = o.ctor /\ driver = o.driver
           /\ enlargement_factor = None
           /\ data = o.data /\ _n = o.n /\ _n_last_out = o.n_last_out
           /\ _value_dict = NaNRow /\ file = o.file
           /\ last = [op |-> "model", arg |-> m, pre |-> 0, cap |-> 0,
                      out |-> Return(None)]
           /\ output_thin = 1 /\ _added_weight = 0 /\ point = None /\ accepted = 0
           /\ NoSampler
NextSchema == BuildColumns
SpecSchema == InitSchema /\ [][NextSchema]_vars

\* A new collection without output, either growth policy; appends of points
\* with and without a chi2, resets, extensions, and the best-fit and MAP rows
NextBest ==
    \/ AddOver(BestArgs) \/ Reset \/ ExtendOver(BestOtherCollections)
    \/ BestFit \/ MapPoint
SpecBest == InitRead /\ [][NextBest]_vars

-----------------------------------------------------------------------------
\* Properties of the read paths

ReadOps == {"getitem_int", "getitem_slice", "getitem_str", "getitem_list", "iter"}

\* The last call was a read on a Collection that returned rows
ReadReturned(ops) ==
    /\ ctor = "ok"
    /\ kind = "Collection"
    /\ last.op \in ops
    /\ last.out.raised = ""

\* C1: no read path of a Collection (integer index, slice, one column, several
\* columns, iteration) returns a row whose position is at or beyond the logical
\* length, in any state reached by appends, resets, extensions and growth.
C1_NoReadBeyondLength ==
    ReadReturned(ReadOps) =>
        \A k \in 1..Len(last.out.val) : last.out.val[k] < _n

\* C3: for logical length L, read(i) raises the out-of-range error when
\* (i >= 0 and i >= L) or (i < 0 and -i > L), and otherwise returns row i
\* (i >= 0) or row L + i (i < 0).
C3_IndexBounds ==
    (ctor = "ok" /\ kind = "Collection" /\ last.op = "getitem_int") =>
        LET i == last.arg
            L == _n
        IN IF (i >= 0 /\ i >= L) \/ (i < 0 /\ -i > L)
           THEN last.out.raised = "IndexError"
           ELSE last.out = Return(<<IF i >= 0 THEN i ELSE L + i>>)

\* C4: for logical length L and any slice (omitted, oversized and negative
\* bounds included), the read never raises and returns the rows that the slice
\* selects among the L valid rows: start and stop clamped into [0, L], negative
\* values taken relative to L, the step kept; every row returned is below L.
C4_SliceClamped ==
    (ctor = "ok" /\ kind = "Collection" /\ last.op = "getitem_slice") =>
        /\ last.out.raised = ""
        /\ last.out.val =
               SlicePositions(last.arg.start, last.arg.stop, last.arg.step, _n)
        /\ \A k \in 1..Len(last.out.val) : last.out.val[k] < _n

-----------------------------------------------------------------------------
\* Properties of the table

\* The last call was an add that returned normally
Added == ctor = "ok" /\ last.op = "add" /\ last.out.raised = ""
\* The last call was an add that found the table full
AddedWhenFull == ctor = "ok" /\ last.op = "add" /\ last.pre = last.cap

\* C2: every successful add on a Collection increases len() by exactly 1,
\* with or without a growth of the DataFrame, and len() is the logical row
\* count, not the number of rows of the DataFrame.
C2_AddIncrementsLength ==
    (Added /\ kind = "Collection") => Collection_len = last.pre + 1

\* C2 witness: an add that enlarged the DataFrame and left len() below its size
C2_AddedWithGrowth ==
    /\ Added /\ kind = "Collection"
    /\ Len(data) > last.cap
    /\ Collection_len < Len(data)

\* C5: an add, successful or not, with or without growth, leaves the rows
\* 0..L-1 that were valid before it as they were.
C5_AddKeepsRows ==
    [][(ctor = "ok" /\ last'.op = "add") =>
           \A k \in 1.._n : k <= Len(data') /\ data'[k] = data[k]]_vars

\* C5 witness: an add that enlarged a DataFrame holding written rows
C5_GrownOverRows ==
    /\ Added /\ last.pre >= 1
    /\ Len(data) > last.cap
    /\ \E k \in 1..last.pre : data[k] # NaNRow

\* C6: whenever an add finds the logical length equal to the capacity, the
\* capacity after the add is strictly greater than before, for every capacity
\* (0 and 1 included) and under both growth policies.
C6_GrowthIsStrict ==
    AddedWhenFull => Len(data) > last.cap

\* C7: 0 <= logical length <= capacity in every state of a Collection and of a
\* OnePoint, after construction (new or loaded), add, reset, _append and growth.
C7_LengthWithinCapacity ==
    ctor = "ok" => (0 <= _n /\ _n <= Len(data))

\* C7 witness: a collection holding rows was extended by one with rows, and has spare rows
C7_GrownAndExtended ==
    /\ ctor = "ok" /\ last.op = "_append" /\ last.arg.n >= 1
    /\ last.pre >= 1
    /\ Len(data) > _n

-----------------------------------------------------------------------------
\* Properties of the text driver

\* The lines of a file that holds one header and the first k rows of the table
HeaderAndRows(k) ==
    IF k = 0 THEN <<>>
    ELSE <<HeaderLine(columns)>> \o [i \in 1..k |-> RowLine(data[i])]

HeaderCount == Cardinality({k \in DOMAIN file.lines : file.lines[k].kind = "header"})

\* C8: for a new Collection with the text driver, under any interleaving of
\* adds and updates of the file, each update writes the rows
\* [_n_last_out, len) and sets _n_last_out = len, so that the file always holds
\* the header and then rows 0.._n_last_out-1 of the table, in order, once each.
C8_FileIsFlushedPrefix ==
    (ctor = "ok" /\ kind = "Collection") =>
        /\ file.lines = HeaderAndRows(_n_last_out)
        /\ _n_last_out <= _n
        /\ (last.op = "_out_update" => _n_last_out = _n)

\* C8 witness: updates have written two different rows of the table
C8_TwoRowsFlushed ==
    /\ ctor = "ok" /\ kind = "Collection"
    /\ last.op = "_out_update"
    /\ _n_last_out >= 2
    /\ data[1] # data[2]

\* C9: an update of the file right after an update of the file, with no add in
\* between, writes nothing and leaves _n_last_out as it was.
C9_SecondUpdateWritesNothing ==
    [][(ctor = "ok" /\ last.op = "_out_update" /\ last'.op = "_out_update") =>
           (file' = file /\ _n_last_out' = _n_last_out)]_vars

\* C9 witness: an update has written rows and can be called again
C9_UpdatedAndCallable ==
    /\ ctor = "ok" /\ driver = "txt"
    /\ last.op = "_out_update"
    /\ _n_last_out >= 1
    /\ Len(file.lines) >= 2
    /\ ENABLED Update

\* C10: after any construction (new, or resumed or loaded with any skip and
\* thin, a load of 0 rows included) and any adds, updates and dumps, the file
\* holds exactly one header line, and it is its first line.
C10_OneLeadingHeader ==
    (ctor = "ok" /\ file.lines # <<>>) =>
        (file.lines[1].kind = "header" /\ HeaderCount = 1)

\* C11: a dump of the file (_out_dump) on a Collection with the text driver
\* holding rows writes the header and every valid row 0..len-1 of the table,
\* whatever _n_last_out was before the call, _n_last_out = len included.
C11_DumpWritesAll ==
    [][(ctor = "ok" /\ kind = "Collection" /\ driver = "txt" /\ _n >= 1
            /\ last'.op = "_out_dump") =>
           file'.lines = file.lines \o <<HeaderLine(columns)>>
                             \o [k \in 1.._n |-> RowLine(data[k])]]_vars

\* The last call constructed a Collection over the file of one that had
\* written all its rows
LoadedFlushed ==
    /\ kind = "Collection"
    /\ last.op = "__init__" /\ last.arg.restart
    /\ last.arg.flushed = last.pre

\* C12 as stated: N rows added to a new Collection with the text driver and
\* written in any number of updates, then loaded with skip = 0 and thin = 1,
\* give a collection of length N whose rows equal the original rows, in order.
C12_RoundTripExact ==
    LoadedFlushed =>
        /\ ctor = "ok"
        /\ _n = last.pre
        /\ \A k \in 1..last.pre : k <= Len(data) /\ data[k] = last.arg.rows[k]

\* C12 amended: for N >= 1 the loaded collection has length N and its rows are
\* the original rows, in order, each value as the file format keeps it
\* (rounded to n_float significant digits).
C12_RoundTripFormatted ==
    (LoadedFlushed /\ last.pre >= 1) =>
        /\ ctor = "ok"
        /\ _n = last.pre
        /\ Len(data) = last.pre
        /\ \A k \in 1..last.pre : data[k] = FormatRow(last.arg.rows[k])

\* C12 witness: two different rows written to the file came back, one of them
\* changed by the file format
C12_TwoBatchesLoaded ==
    /\ LoadedFlushed /\ ctor = "ok"
    /\ last.pre = 2
    /\ last.arg.rows[1] # last.arg.rows[2]
    /\ \E k \in 1..2 : data[k] # last.arg.rows[k]

\* The number of data rows of the file
FileRowCount == Cardinality({k \in DOMAIN file.lines : file.lines[k].kind = "row"})

\* The number of rows out of `rows` that remain when the first `skip` are
\* dropped and every `thin`-th of the rest is kept
Retained(rows, skip, thin) ==
    Cardinality({k \in 0..(rows - 1) : k >= skip /\ (k - skip) % thin = 0})

\* C13: a Collection restored from a file has len() and _n_last_out both equal
\* to the number of rows retained after skip and thin; and every update of the
\* file after that appends to the file exactly the rows added since the last
\* write, [_n_last_out, len), leaving the lines it already had in place.
C13_RestoredThenDelta ==
    /\ []((ctor = "ok" /\ kind = "Collection" /\ last.op = "__init__") =>
            /\ _n = Retained(FileRowCount, last.arg.onload_skip, last.arg.onload_thin)
            /\ _n_last_out = _n)
    /\ [][(ctor = "ok" /\ kind = "Collection" /\ last'.op = "_out_update") =>
             /\ file'.lines = file.lines
                     \o [k \in 1..(_n - _n_last_out) |-> RowLine(data[_n_last_out + k])]
             /\ _n_last_out' = _n]_vars

-----------------------------------------------------------------------------
\* Properties of OnePoint

-----------------------------------------------------------------------------
\* Properties of OneSamplePoint

\* The sum of the weights of the rows added to the collection
Emitted == Sum([k \in 1.._n |-> data[k][_weight]])[1]

\* C15: with a thinning factor T > 1 and non-negative integer weights, each
\* point handed to the OneSamplePoint being offered to the collection once,
\* after every such step (sum of the weights of the rows added) * T + the
\* weight carried over equals the sum of the weights handed in so far, and the
\* weight carried over is always in [0, T).
C15_BatcherConservation ==
    (ctor = "ok" /\ output_thin > 1) =>
        /\ 0 <= _added_weight /\ _added_weight < output_thin
        /\ last.op # "OneSamplePoint_add" =>
               Emitted * output_thin + _added_weight = accepted

\* C15 witness: two rows were added, one of weight 2 or more, and weight is
\* carried over
C15_TwoRowsAndRemainder ==
    /\ ctor = "ok" /\ output_thin > 1
    /\ last.op = "add_to_collection" /\ last.out = Return(TRUE)
    /\ _n = 2
    /\ \E k \in 1.._n : data[k][_weight][1] >= 2
    /\ _added_weight >= 1

\* C16: add_to_collection adds a row exactly when it returns True. With
\* T <= 1 it always adds one row with the weight of the point and leaves the
\* weight carried over as it was. With T > 1 and total = carried + weight: if
\* total < T it returns False, the weight carried over becomes total and the
\* collection keeps its length and rows; otherwise it returns True, adds
\* exactly one row of weight total \div T (at least 1) and the weight carried
\* over becomes total % T.
C16_FlushCommitsRow ==
    [][(ctor = "ok" /\ last'.op = "add_to_collection" /\ point # None) =>
           LET T == output_thin
               weight == Val(point).weight
               total == _added_weight + weight
               added(w) == /\ last'.out = Return(TRUE)
                           /\ _n' = _n + 1
                           /\ data'[_n + 1][_weight] = Num(w)
                           /\ \A k \in 1.._n : data'[k] = data[k]
           IN IF T <= 1
              THEN added(weight) /\ _added_weight' = _added_weight
              ELSE IF total < T
              THEN /\ last'.out = Return(FALSE)
                   /\ _added_weight' = total
                   /\ _n' = _n /\ data' = data
              ELSE /\ added(total \div T)
                   /\ total \div T >= 1
                   /\ _added_weight' = total % T]_vars

\* C16 witness: a point of weight 1 was not added and its weight is carried
\* over, after an earlier one was added
C16_HeldBackAfterRow ==
    /\ ctor = "ok" /\ output_thin > 1
    /\ last.op = "add_to_collection" /\ last.out = Return(FALSE)
    /\ last.arg.weight = Some(1)
    /\ _added_weight = last.arg.carried + 1
    /\ _n >= 1

-----------------------------------------------------------------------------
\* Properties of the row that add stores and of the adds it refuses

\* The sum of a list of numbers
RECURSIVE Total(_)
Total(s) == IF s = <<>> THEN 0 ELSE Head(s)[1] + Total(Tail(s))

\* The row that the last add stored
StoredRow == data[last.pre + 1]

\* C17: an add given logpriors and loglikes and no logpost stores
\* minuslogpost = -(sum(logpriors) + sum(loglikes)), minuslogprior =
\* -sum(logpriors), minuslogprior__i = -logpriors[i] for each prior, chi2 =
\* -2 * sum(loglikes) and chi2__j = -2 * loglikes[j] for each likelihood, and
\* the weight and the sampled and derived values under their own columns; an
\* add given a logpost stores minuslogpost = -logpost.
C17_StoredRowValues ==
    Added =>
        LET a == last.arg
            row == StoredRow
            priors == Val(a.logpriors)
            likes == Val(a.loglikes)
        IN /\ row[_weight] = a.weight
           /\ \A k \in 1..Len(model.sampled_params) :
                  row[model.sampled_params[k]] = a.values[k]
           /\ a.derived # None =>
                  \A k \in 1..Len(model.derived_params) :
                      row[model.derived_params[k]] = Val(a.derived)[k]
           /\ a.logpost # None => row[_minuslogpost] = Num(-(Val(a.logpost)[1]))
           /\ (a.logpost = None /\ a.logpriors # None /\ a.loglikes # None) =>
                  /\ row[_minuslogpost] = Num(-(Total(priors) + Total(likes)))
                  /\ row[_minuslogprior] = Num(-Total(priors))
                  /\ \A i \in 1..Len(model.prior) :
                         row[_minuslogprior \o _separator \o model.prior[i]]
                             = Num(-(priors[i][1]))
                  /\ row[_chi2] = Num(-2 * Total(likes))
                  /\ \A j \in 1..Len(model.likelihood) :
                         row[_chi2 \o _separator \o model.likelihood[j]]
                             = Num(-2 * likes[j][1])

\* C17 witness: a second row was stored from a decomposition whose sums
\* differ from its first components
C17_SumsStored ==
    /\ Added /\ kind = "Collection" /\ last.pre = 1
    /\ last.arg = PointTwo
    /\ StoredRow[_chi2] # StoredRow[_chi2 \o _separator \o "l0"]
    /\ StoredRow[_minuslogprior] # StoredRow[_minuslogprior \o _separator \o "p0"]

\* The numbers of values given differ from the numbers of parameters
ArityMismatch(a) ==
    \/ Len(a.values) # Len(model.sampled_params)
    \/ a.derived # None /\ Len(Val(a.derived)) # Len(model.derived_params)

\* A log-posterior is given, or both lists it is the sum of
PosteriorGiven(a) == a.logpost # None \/ (a.logpriors # None /\ a.loglikes # None)

C19_MissingDecompositionError ==
    (ctor = "ok" /\ last.op = "add" /\ last.arg.logpost = None
        /\ (last.arg.logpriors = None \/ last.arg.loglikes = None)) =>
        /\ last.out.raised = "LoggedError"
        /\ _n = last.pre

-----------------------------------------------------------------------------
\* Properties of construction

\* C20: constructing a collection with an output when the file does not
\* exist gives, with resuming set, a usable new collection (len() = 0,
\* _n_last_out = 0, a DataFrame of initial_size unwritten rows), and with load
\* set raises the IOError of the load to the caller; with both set, one of the
\* two.
C20_NotFoundOnLoad ==
    (last.op = "__init__" /\ last.arg.output /\ ~last.arg.found
        /\ (last.arg.resuming \/ last.arg.load)) =>
        LET size == IF kind = "OnePoint" THEN 1 ELSE last.arg.initial_size
            new == /\ ctor = "ok" /\ last.out.raised = ""
                   /\ _n = 0 /\ _n_last_out = 0
                   /\ data = NaNFrame(size)
            reraised == last.out.raised = "IOError"
        IN IF ~last.arg.load THEN new
           ELSE IF ~last.arg.resuming THEN reraised
           ELSE new \/ reraised

\* The column names in the header of the persisted file
FileColumns == IF file.lines # <<>> /\ file.lines[1].kind = "header"
               THEN SeqToSet(file.lines[1].cols) ELSE {}

\* C21: constructing a collection, resuming or loading, over a file whose set
\* of columns is not the set of columns of the schema raises the LoggedError
\* of the column comparison (the handler of IOError does not catch it) and
\* gives no usable collection; every usable collection has rows over exactly
\* the columns of the schema.
C21_SchemaMismatchFatal ==
    /\ (last.op = "__init__" /\ last.arg.output /\ last.arg.found
            /\ (last.arg.resuming \/ last.arg.load) /\ FileColumns # ColumnSet) =>
           /\ last.out.raised = "LoggedError"
           /\ ctor = "LoggedError"
    /\ ctor = "ok" => \A k \in 1..Len(data) : DOMAIN data[k] = ColumnSet

\* C21 witness: resuming over the file of a run with another model was
\* refused with the LoggedError
C21_ForeignFileRefused ==
    /\ last.op = "__init__" /\ last.arg.resuming /\ ~last.arg.load
    /\ last.arg.found /\ "other" \in FileColumns
    /\ last.out.raised = "LoggedError"
    /\ ctor # "ok"

\* C22: constructing a collection without output with resuming or load set
\* raises the LoggedError "No continuation possible since there is no
\* output"; and on a collection with the dummy driver _out_update, _out_dump
\* and _out_delete change neither the DataFrame nor len(), nor anything else
\* of the collection.
C22_NoOutputNoPersistence ==
    /\ []((last.op = "__init__" /\ ~last.arg.output
              /\ (last.arg.resuming \/ last.arg.load)) =>
             (last.out.raised = "LoggedError" /\ ctor = "LoggedError"))
    /\ [][(driver = "dummy"
              /\ last'.op \in {"_out_update", "_out_dump", "_out_delete"}) =>
             /\ data' = data
             /\ _n' = _n
             /\ _n_last_out' = _n_last_out
             /\ file' = file
             /\ _value_dict' = _value_dict]_vars

\* C22 witness: a collection without output that holds a row was asked to
\* delete its file
C22_DummyDeleteWithRow ==
    /\ ctor = "ok" /\ driver = "dummy"
    /\ last.op = "_out_delete"
    /\ _n >= 1 /\ data[1] # NaNRow

-----------------------------------------------------------------------------
\* Properties of the best-fit and MAP rows

\* The valid rows, as indices of data, that have a value in column col
ValidWithValue(col) == {k \in 1.._n : k <= Len(data) /\ ~IsNaN(data[k][col])}

\* The last call, bestfit or MAP, answered with a copy of the row that has
\* the least value of its column among the rows S, when S is not empty
LeastOf(S) ==
    /\ S # {} => last.out.raised = ""
    /\ last.out.raised = "" =>
           /\ last.out.val.pos + 1 \in S
           /\ last.out.val.row = data[last.out.val.pos + 1]
           /\ \A j \in S : Val(last.out.val.row[last.arg]) <= Val(data[j][last.arg])
           /\ last.out.val.copied

LeastOfValidRows == LeastOf(ValidWithValue(last.arg))

\* C23: in every reachable state bestfit() and MAP() return a copy of the
\* valid row (position below len()) with the least chi2, respectively the
\* least minus log-posterior, whenever a valid row has a value there: the
\* selection is among the valid rows only.
C23_LeastOfValidRowsAlways ==
    (ctor = "ok" /\ last.op \in {"bestfit", "MAP"}) => LeastOfValidRows

-----------------------------------------------------------------------------
\* Properties of _append

\* C24: after _append(other) on a collection of len() L1 with another of
\* len() L2, either with unwritten rows after its valid ones, len() is
\* L1 + L2, the valid rows are the former L1 valid rows followed by the L2
\* valid rows of other, in order, and none of them is an unwritten row.
C24_AppendJoinsValidRows ==
    [][(ctor = "ok" /\ last'.op = "_append") =>
          LET other == last'.arg
          IN /\ _n' = _n + other.n
             /\ _n' <= Len(data')
             /\ \A k \in 1.._n : data'[k] = data[k]
             /\ \A k \in 1..other.n : data'[_n + k] = other.data[k]
             /\ \A k \in 1.._n' : data'[k] # NaNRow]_vars

\* C24 witness: a Collection with one valid row and unwritten rows was
\* extended with a collection of one valid row and one unwritten row
C24_BothOverAllocated ==
    /\ ctor = "ok" /\ kind = "Collection"
    /\ last.op = "_append"
    /\ last.pre = 1 /\ last.cap > 1
    /\ last.arg.n = 1 /\ Len(last.arg.data) = 2
    /\ _n = 2 /\ Len(data) = 3

-----------------------------------------------------------------------------
\* Properties of the PolyChord interface

\* C25: with one PolyChord sampler per process, every deletion of and every
\* write to the file of a collection is done by the main process, the one
\* elected to own the output, and no file is deleted or written by two
\* processes.
C25_OnlyMainProcessPersists ==
    /\ \A o \in file_ops : is_main_process(o.rank)
    /\ \A o1 \in file_ops, o2 \in file_ops : o1.name = o2.name => o1.rank = o2.rank

\* The row a collection stores for a point given with every component
RowOf(a) == _add_dict(NaNRow, a).val

\* C29: after each call of the dumper, given the dead points so far, the dead
\* collection holds each dead point once, in order (its len() is the length
\* of the list), with or without a callback function; and the live
\* collection holds the live points of that call and no others.
C29_DeadOnceLiveAsPassed ==
    last.op = "dumper" =>
        LET r == last.arg.rank
            live_points == last.arg.live_points
            dead_pts == last.arg.dead_points
        IN /\ dead[r].n = Len(dead_pts)
           /\ \A k \in 1..Len(dead_pts) : dead[r].data[k] = RowOf(dead_pts[k])
           /\ live[r].n = Len(live_points)
           /\ \A k \in 1..Len(live_points) :
                  live[r].data[k] = RowOf(AsLive(live_points[k]))

-----------------------------------------------------------------------------
\* Properties of the column schema

\* The schema lists weight, minuslogpost, the sampled parameters, the derived
\* parameters that are not chi2 names, minuslogprior and one column per prior,
\* chi2 and one column per likelihood, in this order
ColumnsInOrder(m, cols) ==
    LET kept == SelectNotIn(m.derived_params, SeqToSet(chi2_names(m)))
        s0 == 2
        d0 == s0 + Len(m.sampled_params)
        p0 == d0 + Len(kept)
        l0 == p0 + 1 + Len(m.prior)
    IN /\ Len(cols) = l0 + 1 + Len(m.likelihood)
       /\ cols[1] = _weight /\ cols[2] = _minuslogpost
       /\ \A k \in 1..Len(m.sampled_params) : cols[s0 + k] = m.sampled_params[k]
       /\ \A k \in 1..Len(kept) : cols[d0 + k] = kept[k]
       /\ cols[p0 + 1] = _minuslogprior
       /\ \A k \in 1..Len(m.prior) :
              cols[p0 + 1 + k] = _minuslogprior \o _separator \o m.prior[k]
       /\ cols[l0 + 1] = _chi2
       /\ \A k \in 1..Len(m.likelihood) :
              cols[l0 + 1 + k] = _chi2 \o _separator \o m.likelihood[k]

NoDuplicateColumn(cols) ==
    \A i \in 1..Len(cols), j \in 1..Len(cols) : cols[i] = cols[j] => i = j

\* The order and the number of the columns alone
SchemaInOrder ==
    last.op = "BaseCollection.__init__" =>
        /\ ColumnsInOrder(last.arg, last.out.val)
        /\ (Len(last.arg.sampled_params) = 2 /\ Len(last.arg.derived_params) = 1
              /\ Len(last.arg.prior) = 1 /\ Len(last.arg.likelihood) = 2
              /\ last.arg.derived_params[1] \notin SeqToSet(chi2_names(last.arg))) =>
              Len(last.out.val) = 10

\* C26: the column schema built from the metadata of a model is weight,
\* minuslogpost, the sampled parameters, the derived parameters whose name is
\* not that of a chi2 column, minuslogprior, one column per prior, chi2, one
\* column per likelihood, in this order (10 columns for 2 sampled and 1
\* derived parameters, 1 prior and 2 likelihoods), and no column name occurs
\* twice in it.
C26_SchemaOrderedNoDuplicate ==
    /\ SchemaInOrder
    /\ last.op = "BaseCollection.__init__" => NoDuplicateColumn(last.out.val)

-----------------------------------------------------------------------------
\* Properties of the flushed-rows counter

\* C27: in every reachable state of a Collection with the text driver, after
\* any appends, updates and dumps of the file, resets and extensions,
\* _n_last_out <= len(): a reset after a flush does not leave _n_last_out
\* above the new length.
C27_FlushedWithinLength ==
    (ctor = "ok" /\ kind = "Collection" /\ driver = "txt") => _n_last_out <= _n

-----------------------------------------------------------------------------
\* Properties of the row buffer

\* C28: the row stored by an add is the row its arguments give: a column for
\* which the call has no value (derived, logpriors or loglikes omitted) is
\* stored as NaN, not with the value of an earlier add, successful or refused.
C28_RowFromArgumentsOnly ==
    (ctor = "ok" /\ last.op = "add" /\ last.out.raised = "") =>
        StoredRow = _add_dict(NaNRow, last.arg).val

-----------------------------------------------------------------------------
\* Properties of the file of a OnePoint

\* C30: on a OnePoint with the text driver, an _out_update issued after a
\* point was added since the previous update writes the row the OnePoint
\* holds to the file: the reset of _n by add never makes an update write
\* nothing.
C30_UpdateWritesHeldRow ==
    [][(ctor = "ok" /\ kind = "OnePoint" /\ driver = "txt"
          /\ last.op = "add" /\ last.out.raised = ""
          /\ last'.op = "_out_update") =>
          /\ Len(file'.lines) > Len(file.lines)
          /\ file'.lines[Len(file'.lines)] = RowLine(data[1])]_vars

====
